---------------------------- MODULE Spec2Model ----------------------------
(***************************************************************************)
(* A model of VoxOver: the generative client (genai.py) and the video      *)
(* voiceover pipeline (utils.py).                                          *)
(*                                                                         *)
(* The program is single threaded.  Every public function is modelled as   *)
(* a call action that stores its arguments, followed by one action per     *)
(* statement that can fail or that changes a resource.  pc = "done" is the *)
(* state in which the call has returned or raised; outcome tells which.    *)
(*                                                                         *)
(* A media handle is "open" from its constructor until close() is invoked  *)
(* on it; "closed" records that close() was invoked, whether or not the    *)
(* library call itself raised (closeFailed records the latter).            *)
(*                                                                         *)
(* Durations and timestamps are exact rationals: a timestamp is a record   *)
(* [num, den] standing for num/den.  Floating point rounding is not        *)
(* modelled.                                                               *)
(***************************************************************************)
EXTENDS Integers, Sequences, FiniteSets

---------------------------------------------------------------------------
(* Bounds of the model *)

MaxDur == 2

MaxFrames == 3

MaxClients == 2

MaxImages == 2

MaxText == 2

MaxLen == 9

(* Program constants *)

DefaultFrames == 10

---------------------------------------------------------------------------
(* Values *)

\* os.getenv / st.secrets.get results: None, "", a key, a non-string value
NoKey == "<None>"
EmptyKey == ""
NonStrKey == "<non-str>"
EnvValues == {NoKey, EmptyKey, "k1"}
SecretValues == {NoKey, "k2", NonStrKey}

\* video.duration as moviepy reports it: None, or a number of seconds
DurationNone == -2
Durations == {DurationNone} \cup (-1 .. MaxDur)

FrameCounts == -1 .. MaxFrames

Chars == {" ", "a"}
Texts == UNION {[1 .. n -> Chars] : n \in 0 .. MaxText}

InputErrors == {"FileNotFoundError", "ValueError: zero duration", "ValueError: empty text"}

VARIABLES
    \* credential sources and the lru_cache of _jarvis
    env, secret, cache, built, jfirst, jlast,
    \* the call in progress
    op, pc, outcome, pending, closeFailed,
    \* arguments and files of the call
    videoExists, vduration, n_frames, text,
    \* generate_video_description / generate_image_description
    timestamps, image_paths, saved, frameFiles, tempDir, video, clip,
    \* the backend and the output audio file
    backendCalls, audioWritten,
    \* merge_video_with_audio
    outDirExists, adurationIn, hasAudio, video_volume, audio_volume,
    original_audio, added_audio_clip, final_audio,
    mvideo, maudio, mfinal, mergedWritten, moviepy,
    \* the code-fence stripping of the text operations
    response, returned

credVars == <<env, secret, cache, built, jfirst, jlast>>
callVars == <<op, pc, outcome, pending, closeFailed>>
argVars == <<videoExists, vduration, n_frames, text>>
frameVars == <<timestamps, image_paths, saved, frameFiles, tempDir, video, clip>>
backendVars == <<backendCalls, audioWritten>>
mergeVars == <<outDirExists, adurationIn, hasAudio, video_volume, audio_volume,
               original_audio, added_audio_clip, final_audio,
               mvideo, maudio, mfinal, mergedWritten, moviepy>>
fenceVars == <<response, returned>>

vars == <<credVars, callVars, argVars, frameVars, backendVars, mergeVars, fenceVars>>

NoClip == [present |-> FALSE, duration |-> 0, volume |-> 1]
EmptyCache == [hit |-> FALSE, id |-> 0, key |-> NoKey]
NoCall == [result |-> "none", id |-> 0, key |-> NoKey, constructed |-> FALSE]

Init ==
    /\ env \in EnvValues
    /\ secret \in SecretValues
    /\ cache = EmptyCache
    /\ built = 0 /\ jfirst = "none" /\ jlast = NoCall
    /\ op = "none" /\ pc = "idle" /\ outcome = "none" /\ pending = "none"
    /\ closeFailed = FALSE
    /\ videoExists = FALSE /\ vduration = 0 /\ n_frames = 0 /\ text = <<>>
    /\ timestamps = <<>> /\ image_paths = <<>> /\ saved = <<>> /\ frameFiles = {}
    /\ tempDir = "none" /\ video = "none" /\ clip = "none"
    /\ backendCalls = 0 /\ audioWritten = FALSE
    /\ outDirExists = FALSE /\ adurationIn = 0 /\ hasAudio = FALSE
    /\ video_volume = 1 /\ audio_volume = 1
    /\ original_audio = NoClip /\ added_audio_clip = NoClip /\ final_audio = NoClip
    /\ mvideo = "none" /\ maudio = "none" /\ mfinal = "none"
    /\ mergedWritten = FALSE /\ moviepy = "v2"
    /\ response = <<>> /\ returned = <<>>

\* A call starts from the idle state: op names the function, pc its first
\* statement.
Begin(o, p) ==
    /\ pc = "idle"
    /\ op' = o /\ pc' = p
    /\ UNCHANGED <<outcome, pending, closeFailed, timestamps, saved, tempDir,
                   video, clip, backendVars, credVars, fenceVars>>

\* The caller has the result (or the exception) of the call: the call's locals
\* and the files it was given are forgotten; only the credential sources and
\* the cache of _jarvis persist.
Return ==
    /\ pc = "done"
    /\ op' = "none" /\ pc' = "idle" /\ outcome' = "none" /\ pending' = "none"
    /\ closeFailed' = FALSE
    /\ videoExists' = FALSE /\ vduration' = 0 /\ n_frames' = 0 /\ text' = <<>>
    /\ timestamps' = <<>> /\ image_paths' = <<>> /\ saved' = <<>>
    /\ frameFiles' = {}
    /\ tempDir' = "none" /\ video' = "none" /\ clip' = "none"
    /\ backendCalls' = 0 /\ audioWritten' = FALSE
    /\ outDirExists' = FALSE /\ adurationIn' = 0 /\ hasAudio' = FALSE
    /\ video_volume' = 1 /\ audio_volume' = 1
    /\ original_audio' = NoClip /\ added_audio_clip' = NoClip
    /\ final_audio' = NoClip
    /\ mvideo' = "none" /\ maudio' = "none" /\ mfinal' = "none"
    /\ mergedWritten' = FALSE /\ moviepy' = "v2"
    /\ response' = <<>> /\ returned' = <<>>
    /\ UNCHANGED credVars

---------------------------------------------------------------------------
(* Credential resolver and cached client: utils.py 19-50, genai.py 28-37 *)

\* st.secrets.get(name, os.getenv(name)): the secrets store wins when it has
\* the name
_get_secret(e, s) == IF s # NoKey THEN s ELSE e

_get_openai_api_key(e, s) == _get_secret(e, s)

\* GenAI.__init__: the key must be a non-empty str
GenAI_init(key) ==
    IF key \in {NoKey, EmptyKey, NonStrKey} THEN "ValueError: api key" ELSE "ok"

\* What one call of _jarvis does: its result, the client returned (id, key),
\* whether GenAI(key) ran, and the cache it leaves.
JarvisEntry(result, id, key, constructed, c) ==
    [result |-> result, id |-> id, key |-> key, constructed |-> constructed,
     cache |-> c]

\* A faulty variant: no cache, the client is rebuilt from the credential on every call.
JarvisUncached(c, key, nextId) ==
    IF key \in {NoKey, EmptyKey}
    THEN JarvisEntry("RuntimeError: missing key", 0, NoKey, FALSE, c)
    ELSE IF GenAI_init(key) # "ok"
    THEN JarvisEntry(GenAI_init(key), 0, NoKey, FALSE, c)
    ELSE JarvisEntry("client", nextId, key, TRUE,
                     [hit |-> TRUE, id |-> nextId, key |-> key])

\* A faulty variant: a cache that also remembers the failure of the first call.
JarvisCachesFailure(c, key, nextId) ==
    IF c.hit
    THEN JarvisEntry(IF c.id = 0 THEN "RuntimeError: missing key" ELSE "client",
                     c.id, c.key, FALSE, c)
    ELSE IF key \in {NoKey, EmptyKey}
    THEN JarvisEntry("RuntimeError: missing key", 0, NoKey, FALSE,
                     [hit |-> TRUE, id |-> 0, key |-> NoKey])
    ELSE IF GenAI_init(key) # "ok"
    THEN JarvisEntry(GenAI_init(key), 0, NoKey, FALSE, c)
    ELSE JarvisEntry("client", nextId, key, TRUE,
                     [hit |-> TRUE, id |-> nextId, key |-> key])

\* @lru_cache(maxsize=1) def _jarvis(): a hit returns the cached client without
\* running the body; a miss runs the body, and only a returned value is stored
\* (an exception leaves the cache empty).  c is the cache, key the credential
\* the body would read, nextId the identity of a newly built client.
_jarvis(c, key, nextId) ==
    IF c.hit
    THEN JarvisEntry("client", c.id, c.key, FALSE, c)
    ELSE IF key \in {NoKey, EmptyKey}
    THEN JarvisEntry("RuntimeError: missing key", 0, NoKey, FALSE, c)
    ELSE IF GenAI_init(key) # "ok"
    THEN JarvisEntry(GenAI_init(key), 0, NoKey, FALSE, c)
    ELSE JarvisEntry("client", nextId, key, TRUE,
                     [hit |-> TRUE, id |-> nextId, key |-> key])

\* The environment or the secrets store changes between two calls.
SetEnv(v) ==
    /\ pc = "idle"
    /\ v # env
    /\ env' = v
    /\ UNCHANGED <<secret, cache, built, jfirst, jlast, callVars, argVars, frameVars,
                   backendVars, mergeVars, fenceVars>>

SetSecret(v) ==
    /\ pc = "idle"
    /\ v # secret
    /\ secret' = v
    /\ UNCHANGED <<env, cache, built, jfirst, jlast, callVars, argVars, frameVars,
                   backendVars, mergeVars, fenceVars>>

---------------------------------------------------------------------------
(* Pure helpers of genai.py *)

Backtick == "bq"
FenceHtml == <<Backtick, Backtick, Backtick, "h", "t", "m", "l">>
Fence == <<Backtick, Backtick, Backtick>>

RECURSIVE Replace(_, _)
\* str.replace(old, ""): the non-overlapping occurrences of old, found left to
\* right, are removed in one pass
Replace(s, old) ==
    IF Len(s) < Len(old) THEN s
    ELSE IF SubSeq(s, 1, Len(old)) = old
    THEN Replace(SubSeq(s, Len(old) + 1, Len(s)), old)
    ELSE <<Head(s)>> \o Replace(Tail(s), old)

\* response.replace("```html", "").replace("```", "")
StripFences(s) == Replace(Replace(s, FenceHtml), Fence)

Contains(s, sub) ==
    \E i \in 1 .. (Len(s) - Len(sub) + 1) : SubSeq(s, i, i + Len(sub) - 1) = sub

RECURSIVE Strip(_)
\* text.strip() for a text of spaces and letters
Strip(t) ==
    IF t = <<>> THEN t
    ELSE IF Head(t) = " " THEN Strip(Tail(t))
    ELSE IF t[Len(t)] = " " THEN Strip(SubSeq(t, 1, Len(t) - 1))
    ELSE t

\* A faulty variant: the frames are spaced duration/n apart, so the last one falls
\* short of the end of the video.
TimestampsExclusive(duration, n) ==
    IF n <= 1 THEN << [num |-> 0, den |-> 1] >>
    ELSE [i \in 1 .. n |-> [num |-> (i - 1) * duration, den |-> n]]

\* timestamps = [0.0] if n_frames <= 1
\*              else [i * duration / (n_frames - 1) for i in range(n_frames)]
Timestamps(duration, n) ==
    IF n <= 1 THEN << [num |-> 0, den |-> 1] >>
    ELSE [i \in 1 .. n |-> [num |-> (i - 1) * duration, den |-> n - 1]]

\* A faulty variant: the sign of the duration is dropped.
DurationOfAbs(d) == IF d \in {DurationNone, 0} THEN 0 ELSE IF d < 0 THEN 0 - d ELSE d

\* float(video.duration) if video.duration else 0.0
DurationOf(d) == IF d \in {DurationNone, 0} THEN 0 ELSE d

SampleResponses == { <<"o", "k">>, FenceHtml \o <<"o", "k">> \o Fence }

\* What each text operation returns for the backend's answer r
\* (completion.choices[0].message.content or "")
generate_text_result(r) == StripFences(r)

generate_chat_response_result(r) == r

generate_image_description_result(r) == StripFences(r)

---------------------------------------------------------------------------
(* The calls *)

\* Leaving the call: the with-block of generate_video_description, when it
\* was entered, removes the temporary directory and the frames in it
\* (genai.py 137), on a return and on an exception alike.
Finish(o) ==
    /\ pc' = "done"
    /\ outcome' = o
    /\ tempDir' = IF tempDir = "exists" THEN "removed" ELSE tempDir
    /\ frameFiles' = IF tempDir = "exists" THEN {} ELSE frameFiles

\* ex: the file exists; d: the duration moviepy reports for it (of no use,
\* and fixed, for a file that does not exist)
CallGetVideoDuration(ex, d) ==
    /\ ex \/ d = 0
    /\ Begin("get_video_duration", "gvdur_open")
    /\ videoExists' = ex /\ vduration' = d
    /\ image_paths' = <<>> /\ frameFiles' = {}
    /\ UNCHANGED <<n_frames, text>>
    /\ UNCHANGED mergeVars

CallGenerateVoiceoverText(ex, d) ==
    /\ ex \/ d = 0
    /\ built < MaxClients
    /\ Begin("generate_voiceover_text", "gvdur_open")
    /\ videoExists' = ex /\ vduration' = d /\ n_frames' = DefaultFrames
    /\ image_paths' = <<>> /\ frameFiles' = {}
    /\ UNCHANGED text
    /\ UNCHANGED mergeVars

CallGenerateVoiceoverAudio(t) ==
    /\ built < MaxClients
    /\ Begin("generate_voiceover_audio", "jarvis")
    /\ text' = t
    /\ image_paths' = <<>> /\ frameFiles' = {}
    /\ UNCHANGED <<videoExists, vduration, n_frames>>
    /\ UNCHANGED mergeVars

CallGenerateVideoDescription(ex, d, n) ==
    /\ ex \/ (d = 0 /\ n = 0)
    /\ Begin("generate_video_description", "gvd_exists")
    /\ videoExists' = ex /\ vduration' = d /\ n_frames' = n
    /\ image_paths' = <<>> /\ frameFiles' = {}
    /\ UNCHANGED text
    /\ UNCHANGED mergeVars

\* k image paths, of which those in present exist
CallGenerateImageDescription(k, present) ==
    /\ Begin("generate_image_description", "gid_encode")
    /\ image_paths' = [i \in 1 .. k |-> i - 1]
    /\ frameFiles' = present
    /\ UNCHANGED argVars
    /\ UNCHANGED mergeVars

CallGenerateAudio(t) ==
    /\ Begin("generate_audio", "ga_check")
    /\ text' = t
    /\ image_paths' = <<>> /\ frameFiles' = {}
    /\ UNCHANGED <<videoExists, vduration, n_frames>>
    /\ UNCHANGED mergeVars

---------------------------------------------------------------------------
(* get_video_duration: utils.py 53-59 *)

\* clip = VideoFileClip(video_path)
GetVideoDurationOpen ==
    /\ pc = "gvdur_open"
    /\ \E ok \in BOOLEAN :
        /\ ok => videoExists
        /\ IF ok
           THEN clip' = "open" /\ pc' = "gvdur_body" /\ outcome' = outcome
           ELSE clip' = clip /\ pc' = "done" /\ outcome' = "OSError"
    /\ UNCHANGED <<credVars, op, pending, closeFailed, argVars, timestamps,
                   image_paths, saved, frameFiles, tempDir, video, backendVars,
                   mergeVars, fenceVars>>

\* return float(clip.duration)
GetVideoDurationBody ==
    /\ pc = "gvdur_body"
    /\ pending' = IF vduration = DurationNone THEN "TypeError" ELSE "none"
    /\ pc' = "gvdur_close"
    /\ UNCHANGED <<credVars, op, outcome, closeFailed, argVars, frameVars,
                   backendVars, mergeVars, fenceVars>>

\* finally: clip.close()
GetVideoDurationClose ==
    /\ pc = "gvdur_close"
    /\ clip' = "closed"
    /\ \E fails \in BOOLEAN :
        /\ closeFailed' = fails
        /\ IF fails THEN pc' = "done" /\ outcome' = "CloseError"
           ELSE IF pending # "none" THEN pc' = "done" /\ outcome' = pending
           ELSE IF op = "get_video_duration" THEN pc' = "done" /\ outcome' = "ok"
           ELSE pc' = "jarvis" /\ outcome' = outcome
    /\ UNCHANGED <<credVars, op, pending, argVars, timestamps, image_paths,
                   saved, frameFiles, tempDir, video, backendVars, mergeVars,
                   fenceVars>>

---------------------------------------------------------------------------
(* jarvis = _jarvis() in generate_voiceover_text and generate_voiceover_audio:
   utils.py 76, 94 *)

Jarvis ==
    /\ pc = "jarvis"
    /\ LET r == _jarvis(cache, _get_openai_api_key(env, secret), built + 1)
       IN /\ jlast' = [result |-> r.result, id |-> r.id, key |-> r.key,
                       constructed |-> r.constructed]
          /\ jfirst' = IF jfirst = "none" THEN r.result ELSE jfirst
          /\ built' = IF r.constructed THEN built + 1 ELSE built
          /\ cache' = r.cache
          /\ IF r.result = "client"
             THEN /\ pc' = IF op = "generate_voiceover_text"
                           THEN "gvd_exists" ELSE "ga_check"
                  /\ outcome' = outcome
             ELSE pc' = "done" /\ outcome' = r.result
    /\ UNCHANGED <<env, secret, op, pending, closeFailed, argVars, frameVars,
                   backendVars, mergeVars, fenceVars>>

---------------------------------------------------------------------------
(* GenAI.generate_video_description: genai.py 123-161 *)

\* if not os.path.exists(video_path): raise FileNotFoundError
\* with tempfile.TemporaryDirectory() as temp_dir:
GvdExists ==
    /\ pc = "gvd_exists"
    /\ IF videoExists
       THEN /\ tempDir' = "exists" /\ pc' = "gvd_open"
            /\ UNCHANGED <<outcome, frameFiles>>
       ELSE Finish("FileNotFoundError")
    /\ UNCHANGED <<credVars, op, pending, closeFailed, argVars, timestamps,
                   image_paths, saved, video, clip, backendVars, mergeVars,
                   fenceVars>>

\* video = VideoFileClip(video_path)
GvdOpen ==
    /\ pc = "gvd_open"
    /\ \E ok \in BOOLEAN :
        IF ok
        THEN /\ video' = "open" /\ pc' = "gvd_duration"
             /\ UNCHANGED <<outcome, tempDir, frameFiles>>
        ELSE video' = video /\ Finish("OSError")
    /\ UNCHANGED <<credVars, op, pending, closeFailed, argVars, timestamps,
                   image_paths, saved, clip, backendVars, mergeVars, fenceVars>>

\* duration = ...; if duration <= 0: raise ValueError; timestamps = ...
GvdDuration ==
    /\ pc = "gvd_duration"
    /\ IF DurationOf(vduration) <= 0
       THEN /\ pending' = "ValueError: zero duration"
            /\ pc' = "gvd_close"
            /\ timestamps' = timestamps
       ELSE /\ timestamps' = Timestamps(DurationOf(vduration), n_frames)
            /\ pc' = "gvd_save"
            /\ pending' = pending
    /\ UNCHANGED <<credVars, op, outcome, closeFailed, argVars, image_paths,
                   saved, frameFiles, tempDir, video, clip, backendVars,
                   mergeVars, fenceVars>>

\* one turn of: for i, t in enumerate(timestamps): video.save_frame(...)
GvdSaveFrame ==
    /\ pc = "gvd_save"
    /\ LET i == Len(image_paths) + 1
       IN \E ok \in BOOLEAN :
            IF ok
            THEN /\ saved' = Append(saved, timestamps[i])
                 /\ frameFiles' = frameFiles \cup {i - 1}
                 /\ image_paths' = Append(image_paths, i - 1)
                 /\ pc' = IF i = Len(timestamps) THEN "gvd_close" ELSE "gvd_save"
                 /\ pending' = pending
            ELSE /\ pending' = "OSError"
                 /\ pc' = "gvd_close"
                 /\ UNCHANGED <<saved, frameFiles, image_paths>>
    /\ UNCHANGED <<credVars, op, outcome, closeFailed, argVars, timestamps,
                   tempDir, video, clip, backendVars, mergeVars, fenceVars>>

\* A faulty variant: the video is closed only when sampling succeeded.
GvdCloseNoFinally ==
    /\ pc = "gvd_close"
    /\ IF pending # "none"
       THEN video' = video /\ closeFailed' = FALSE /\ Finish(pending)
       ELSE /\ video' = "closed" /\ closeFailed' = FALSE /\ pc' = "gid_encode"
            /\ UNCHANGED <<outcome, tempDir, frameFiles>>
    /\ UNCHANGED <<credVars, op, pending, argVars, timestamps, image_paths,
                   saved, clip, backendVars, mergeVars, fenceVars>>

\* finally: video.close()
GvdClose ==
    /\ pc = "gvd_close"
    /\ video' = "closed"
    /\ \E fails \in BOOLEAN :
        /\ closeFailed' = fails
        /\ IF fails THEN Finish("CloseError")
           ELSE IF pending # "none" THEN Finish(pending)
           ELSE pc' = "gid_encode" /\ UNCHANGED <<outcome, tempDir, frameFiles>>
    /\ UNCHANGED <<credVars, op, pending, argVars, timestamps, image_paths,
                   saved, clip, backendVars, mergeVars, fenceVars>>

---------------------------------------------------------------------------
(* GenAI.generate_image_description: genai.py 87-121 *)

\* image_urls = [... self.encode_image(p) for p in image_paths]
GidEncode ==
    /\ pc = "gid_encode"
    /\ IF \E j \in 1 .. Len(image_paths) : image_paths[j] \notin frameFiles
       THEN Finish("FileNotFoundError")
       ELSE \E ok \in BOOLEAN :
              IF ok THEN pc' = "gid_request" /\ UNCHANGED <<outcome, tempDir, frameFiles>>
              ELSE Finish("OSError")
    /\ UNCHANGED <<credVars, op, pending, closeFailed, argVars, timestamps,
                   image_paths, saved, video, clip, backendVars, mergeVars,
                   fenceVars>>

\* completion = self.client.chat.completions.create(...); return stripped text
GidRequest ==
    /\ pc = "gid_request"
    /\ backendCalls' = backendCalls + 1
    /\ \/ \E r \in SampleResponses :
            /\ response' = r
            /\ returned' = generate_image_description_result(r)
            /\ Finish("ok")
       \/ Finish("BackendError") /\ UNCHANGED fenceVars
    /\ UNCHANGED <<credVars, op, pending, closeFailed, argVars, timestamps,
                   image_paths, saved, video, clip, audioWritten, mergeVars>>

---------------------------------------------------------------------------
(* GenAI.generate_audio: genai.py 166-184 *)

\* A faulty variant: the text is checked only after the speech request was made.
GaCheckAfterRequest ==
    /\ pc = "ga_check"
    /\ backendCalls' = backendCalls + 1
    /\ IF text = <<>> \/ Strip(text) = <<>>
       THEN pc' = "done" /\ outcome' = "ValueError: empty text"
       ELSE pc' = "done" /\ outcome' = "ok"
    /\ UNCHANGED <<credVars, op, pending, closeFailed, argVars, frameVars,
                   audioWritten, mergeVars, fenceVars>>

\* if not text or not text.strip(): raise ValueError
GaCheck ==
    /\ pc = "ga_check"
    /\ IF text = <<>> \/ Strip(text) = <<>>
       THEN pc' = "done" /\ outcome' = "ValueError: empty text"
       ELSE pc' = "ga_request" /\ outcome' = outcome
    /\ UNCHANGED <<credVars, op, pending, closeFailed, argVars, frameVars,
                   backendVars, mergeVars, fenceVars>>

\* response = self.client.audio.speech.create(...); response.stream_to_file(...)
GaRequest ==
    /\ pc = "ga_request"
    /\ backendCalls' = backendCalls + 1
    /\ \E ok \in BOOLEAN :
        IF ok THEN audioWritten' = TRUE /\ pc' = "done" /\ outcome' = "ok"
        ELSE audioWritten' = audioWritten /\ pc' = "done" /\ outcome' = "BackendError"
    /\ UNCHANGED <<credVars, op, pending, closeFailed, argVars, frameVars,
                   mergeVars, fenceVars>>

---------------------------------------------------------------------------
(* The pipeline and the generative client *)

Next ==
    \/ \E v \in EnvValues : SetEnv(v)
    \/ \E v \in SecretValues : SetSecret(v)
    \/ \E ex \in BOOLEAN, d \in Durations :
          CallGetVideoDuration(ex, d)
    \/ \E ex \in BOOLEAN, d \in Durations :
          CallGenerateVoiceoverText(ex, d)
    \/ \E t \in Texts : CallGenerateVoiceoverAudio(t)
    \/ \E ex \in BOOLEAN, d \in Durations, n \in FrameCounts :
          CallGenerateVideoDescription(ex, d, n)
    \/ \E k \in 1 .. MaxImages : \E present \in SUBSET (0 .. k - 1) :
          CallGenerateImageDescription(k, present)
    \/ \E t \in Texts : CallGenerateAudio(t)
    \/ GetVideoDurationOpen
    \/ GetVideoDurationBody
    \/ GetVideoDurationClose
    \/ Jarvis
    \/ GvdExists
    \/ GvdOpen
    \/ GvdDuration
    \/ GvdSaveFrame
    \/ GvdClose
    \/ GidEncode
    \/ GidRequest
    \/ GaCheck
    \/ GaRequest
    \/ Return

Spec == Init /\ [][Next]_vars

---------------------------------------------------------------------------
(* Properties of the pipeline and the generative client *)

GvdOps == {"generate_video_description", "generate_voiceover_text"}

RatEq(a, b) == a.num * b.den = b.num * a.den
RatLt(a, b) == a.num * b.den < b.num * a.den
Rat(n) == [num |-> n, den |-> 1]

\* The sampling loop has run to its end without an error.
SamplingComplete ==
    /\ op \in GvdOps
    /\ timestamps # <<>>
    /\ pending = "none"
    /\ pc \in {"gvd_close", "gid_encode", "gid_request", "done"}

\* C1: for a video of positive duration D and a frame count N, the sampled
\* timestamps are [0] when N <= 1, and when N >= 2 they are the N values
\* i*D/(N-1), i = 0..N-1: the first is 0, the last is D, they increase; the
\* frames are saved one per timestamp, in that order.
C1_Timestamps ==
    (op \in GvdOps /\ timestamps # <<>>) =>
        LET D == vduration
            N == n_frames
        IN /\ D > 0
           /\ N <= 1 => (Len(timestamps) = 1 /\ RatEq(timestamps[1], Rat(0)))
           /\ N >= 2 =>
                /\ Len(timestamps) = N
                /\ \A i \in 0 .. N - 1 :
                      timestamps[i + 1].den > 0
                      /\ timestamps[i + 1].num * (N - 1) = i * D * timestamps[i + 1].den
                /\ RatEq(timestamps[1], Rat(0))
                /\ RatEq(timestamps[N], Rat(D))
                /\ \A i \in 1 .. N - 1 : RatLt(timestamps[i], timestamps[i + 1])
           /\ Len(saved) <= Len(timestamps)
           /\ Len(image_paths) = Len(saved)
           /\ \A j \in 1 .. Len(saved) :
                 saved[j] = timestamps[j] /\ image_paths[j] = j - 1
           /\ SamplingComplete => Len(saved) = Len(timestamps)

C1_Witness ==
    /\ SamplingComplete /\ pc = "done" /\ outcome = "ok"
    /\ n_frames = 3 /\ vduration = 2
    /\ Len(saved) = 3

\* video.duration is None, zero or negative
NonPositive(d) == d = DurationNone \/ d <= 0

\* C2 as stated: with N = 0, or with a non-positive duration, the call raises
\* the input error and no frame is written.
C2_Original ==
    (op \in GvdOps /\ video # "none" /\ pc # "gvd_duration"
        /\ (n_frames = 0 \/ NonPositive(vduration))) =>
        (pending = "ValueError: zero duration" /\ saved = <<>>)

\* C2 as amended: a non-positive (or absent) duration raises the input error
\* before any frame is written, and the caller sees it unless closing the
\* video fails; a frame count of 0 on a video of positive duration raises
\* nothing: one frame is sampled at timestamp 0.
C2_Amended ==
    (op \in GvdOps /\ video # "none" /\ pc # "gvd_duration") =>
        /\ NonPositive(vduration) =>
              /\ pending = "ValueError: zero duration"
              /\ saved = <<>> /\ frameFiles = {} /\ backendCalls = 0
              /\ pc = "done" => outcome \in {"ValueError: zero duration", "CloseError"}
        /\ ~NonPositive(vduration) =>
              /\ pending # "ValueError: zero duration"
              /\ n_frames = 0 =>
                    /\ Len(timestamps) = 1 /\ RatEq(timestamps[1], Rat(0))
                    /\ SamplingComplete => Len(saved) = 1

C2_Witness ==
    /\ op = "generate_video_description" /\ pc = "done"
    /\ vduration = -1 /\ outcome = "ValueError: zero duration"

\* C4 as stated: when the first use of _jarvis failed for a missing
\* credential, the calls made later fail too, whatever the credential is by
\* then.
C4_Original ==
    jfirst = "RuntimeError: missing key" => jlast.result # "client"

ValidKeys == {"k1", "k2"}

\* C4 as amended: a first use of _jarvis without a credential raises the
\* configuration error and leaves the cache empty; a call made after a call
\* that failed so, once a valid credential is set, builds the client from
\* that credential and succeeds.
C4_Amended ==
    [][pc = "jarvis" =>
        /\ (jfirst = "none" /\ _get_openai_api_key(env, secret) \in {NoKey, EmptyKey})
              => (jfirst' = "RuntimeError: missing key"
                  /\ jlast'.result = "RuntimeError: missing key"
                  /\ pc' = "done" /\ outcome' = "RuntimeError: missing key"
                  /\ ~cache'.hit)
        /\ (jlast.result = "RuntimeError: missing key"
               /\ _get_openai_api_key(env, secret) \in ValidKeys)
              => (jlast'.result = "client" /\ jlast'.constructed
                  /\ jlast'.key = _get_openai_api_key(env, secret)
                  /\ cache'.hit)
    ]_vars

C4_Witness ==
    /\ jfirst = "RuntimeError: missing key"
    /\ jlast.result = "client" /\ jlast.constructed
    /\ pc = "done" /\ outcome = "ok"

\* C5: a call that fails with an input error (empty or blank text, missing
\* video or image file, zero duration) has made no backend request and has
\* written no audio file.
C5_InputErrorsBeforeBackend ==
    (pc = "done" /\ outcome \in InputErrors) =>
        (backendCalls = 0 /\ ~audioWritten)

C5_Witness ==
    /\ pc = "done" /\ op = "generate_voiceover_audio"
    /\ outcome = "ValueError: empty text" /\ text # <<>>

\* C6: a failure of close() is swallowed: the caller never sees it, and when
\* the body raised E the caller sees E.
C6_CloseFailureSwallowed ==
    (pc = "done" /\ closeFailed) =>
        (outcome # "CloseError" /\ (pending # "none" => outcome = pending))

\* C7: when generate_video_description has returned or raised after opening
\* the video, the video has been closed and the temporary directory is gone
\* with every frame file in it.
C7_Cleanup ==
    (pc = "done" /\ op \in GvdOps /\ video # "none") =>
        (video = "closed" /\ tempDir = "removed" /\ frameFiles = {})

C7_Witness ==
    /\ pc = "done" /\ op \in GvdOps
    /\ pending = "OSError" /\ Len(saved) >= 1 /\ outcome = "OSError"

\* C10: once _jarvis has returned a client, a later call returns that same
\* client without building one, whatever the credential is by then, so at
\* most one client is ever built and the cache never changes again.
C10_CacheNeverInvalidated ==
    [][(pc = "jarvis" /\ jlast.result = "client") =>
        (/\ jlast'.result = "client"
         /\ jlast'.id = jlast.id /\ jlast'.key = jlast.key
         /\ ~jlast'.constructed
         /\ cache' = cache /\ cache.hit
         /\ built' = built /\ built = 1)
    ]_vars

C10_Witness ==
    /\ pc = "ga_check"
    /\ jlast.result = "client" /\ ~jlast.constructed
    /\ _get_openai_api_key(env, secret) = NoKey

---------------------------------------------------------------------------
(* Audio/video composer: utils.py 104-195 *)

Volumes == {1, 2}
MoviePyVersions == {"v1", "v2"}

Clip(d) == [present |-> TRUE, duration |-> d, volume |-> 1]

\* with_volume_scaled (v2) or volumex (v1); a multiplier of 1.0 and an absent
\* clip are returned as they are
_scale_volume(audio_clip, volume, version) ==
    IF volume = 1 \/ ~audio_clip.present THEN audio_clip
    ELSE IF version = "v2" THEN [audio_clip EXCEPT !.volume = @ * volume]
    ELSE IF version = "v1" THEN [audio_clip EXCEPT !.volume = @ * volume]
    ELSE audio_clip

\* A faulty variant: the narration is left at its full length.
SubclipNoTrim(audio_clip, t_end, version) == audio_clip

\* subclipped(0, t_end) (v2) or subclip(0, t_end) (v1)
_subclip(audio_clip, t_end, version) ==
    IF ~audio_clip.present THEN audio_clip
    ELSE IF version = "v2" THEN [audio_clip EXCEPT !.duration = t_end]
    ELSE [audio_clip EXCEPT !.duration = t_end]

\* CompositeAudioClip([a, b]): it lasts until the later of the two ends
CompositeAudioClip(a, b) ==
    [present |-> TRUE,
     duration |-> IF a.duration >= b.duration THEN a.duration ELSE b.duration,
     volume |-> 1]

\* video_clip.audio: absent, or the audio stream of the file, for which
\* moviepy reports the duration of the file
VideoAudio(has, d) == IF has THEN Clip(d) ELSE NoClip

\* d, a: the durations of the video and of the narration; has: the video has
\* an audio track; vv, av: the volume multipliers; dir: the output directory
\* exists; ver: the moviepy in use
CallMerge(d, a, has, vv, av, dir, ver) ==
    /\ Begin("merge_video_with_audio", "mva_makedirs")
    /\ vduration' = d /\ adurationIn' = a /\ hasAudio' = has
    /\ video_volume' = vv /\ audio_volume' = av
    /\ outDirExists' = dir /\ moviepy' = ver
    /\ UNCHANGED <<videoExists, n_frames, text, image_paths, frameFiles>>
    /\ UNCHANGED <<original_audio, added_audio_clip, final_audio, mvideo,
                   maudio, mfinal, mergedWritten>>

MergeFixed == <<credVars, op, argVars, frameVars, backendVars, fenceVars,
                adurationIn, hasAudio, video_volume, audio_volume, moviepy>>

\* os.makedirs(output_dir, exist_ok=True)
MvaMakedirs ==
    /\ pc = "mva_makedirs"
    /\ outDirExists' = TRUE
    /\ pc' = "mva_open_video"
    /\ UNCHANGED <<MergeFixed, outcome, pending, closeFailed, original_audio,
                   added_audio_clip, final_audio, mvideo, maudio, mfinal,
                   mergedWritten>>

\* video_clip = VideoFileClip(video_path), before the try
MvaOpenVideo ==
    /\ pc = "mva_open_video"
    /\ \E ok \in BOOLEAN :
        IF ok THEN mvideo' = "open" /\ pc' = "mva_open_audio" /\ outcome' = outcome
        ELSE mvideo' = mvideo /\ pc' = "done" /\ outcome' = "OSError"
    /\ UNCHANGED <<MergeFixed, pending, closeFailed, outDirExists,
                   original_audio, added_audio_clip, final_audio, maudio,
                   mfinal, mergedWritten>>

\* added_audio_clip = AudioFileClip(audio_path), before the try
MvaOpenAudio ==
    /\ pc = "mva_open_audio"
    /\ \E ok \in BOOLEAN :
        IF ok
        THEN /\ maudio' = "open"
             /\ added_audio_clip' = Clip(adurationIn)
             /\ pc' = "mva_scale" /\ outcome' = outcome
        ELSE /\ UNCHANGED <<maudio, added_audio_clip>>
             /\ pc' = "done" /\ outcome' = "OSError"
    /\ UNCHANGED <<MergeFixed, pending, closeFailed, outDirExists,
                   original_audio, final_audio, mvideo, mfinal, mergedWritten>>

\* original_audio = _scale_volume(video_clip.audio, video_volume)
\* added_audio_clip = _scale_volume(added_audio_clip, audio_volume)
MvaScale ==
    /\ pc = "mva_scale"
    /\ \E ok \in BOOLEAN :
        IF ok
        THEN /\ original_audio' =
                    _scale_volume(VideoAudio(hasAudio, vduration), video_volume, moviepy)
             /\ added_audio_clip' =
                    _scale_volume(added_audio_clip, audio_volume, moviepy)
             /\ pc' = "mva_trim" /\ pending' = pending
        ELSE /\ UNCHANGED <<original_audio, added_audio_clip>>
             /\ pc' = "mva_finally" /\ pending' = "OSError"
    /\ UNCHANGED <<MergeFixed, outcome, closeFailed, outDirExists, final_audio,
                   mvideo, maudio, mfinal, mergedWritten>>

\* if added_audio_clip.duration > video_clip.duration: added_audio_clip = _subclip(...)
MvaTrim ==
    /\ pc = "mva_trim"
    /\ \E ok \in BOOLEAN :
        IF ok
        THEN /\ added_audio_clip' =
                    IF added_audio_clip.duration > vduration
                    THEN _subclip(added_audio_clip, vduration, moviepy)
                    ELSE added_audio_clip
             /\ pc' = "mva_composite" /\ pending' = pending
        ELSE /\ added_audio_clip' = added_audio_clip
             /\ pc' = "mva_finally" /\ pending' = "OSError"
    /\ UNCHANGED <<MergeFixed, outcome, closeFailed, outDirExists,
                   original_audio, final_audio, mvideo, maudio, mfinal,
                   mergedWritten>>

\* final_audio = CompositeAudioClip([...]) or added_audio_clip
\* final_clip = _set_audio(video_clip, final_audio)
MvaComposite ==
    /\ pc = "mva_composite"
    /\ \E ok \in BOOLEAN :
        IF ok
        THEN /\ final_audio' =
                    IF original_audio.present
                    THEN CompositeAudioClip(original_audio, added_audio_clip)
                    ELSE added_audio_clip
             /\ mfinal' = "open"
             /\ pc' = "mva_write" /\ pending' = pending
        ELSE /\ UNCHANGED <<final_audio, mfinal>>
             /\ pc' = "mva_finally" /\ pending' = "OSError"
    /\ UNCHANGED <<MergeFixed, outcome, closeFailed, outDirExists,
                   original_audio, added_audio_clip, mvideo, maudio,
                   mergedWritten>>

\* final_clip.write_videofile(merged_path, ...); return merged_path
MvaWrite ==
    /\ pc = "mva_write"
    /\ \E ok \in BOOLEAN :
        IF ok THEN mergedWritten' = TRUE /\ pending' = pending
        ELSE mergedWritten' = mergedWritten /\ pending' = "OSError"
    /\ pc' = "mva_finally"
    /\ UNCHANGED <<MergeFixed, outcome, closeFailed, outDirExists,
                   original_audio, added_audio_clip, final_audio, mvideo,
                   maudio, mfinal>>

\* finally: the three close() calls, each in its own try/except Exception;
\* final_clip.close() raises NameError, swallowed too, when final_clip was
\* never bound.  failed: the close() calls that raise.
MvaFinally ==
    /\ pc = "mva_finally"
    /\ \E failed \in SUBSET {"added_audio_clip", "video_clip", "final_clip"} :
        closeFailed' = (failed # {})
    /\ maudio' = "closed"
    /\ mvideo' = "closed"
    /\ mfinal' = IF mfinal = "none" THEN "none" ELSE "closed"
    /\ pc' = "done"
    /\ outcome' = IF pending # "none" THEN pending ELSE "ok"
    /\ UNCHANGED <<MergeFixed, pending, outDirExists, original_audio,
                   added_audio_clip, final_audio, mergedWritten>>

NextMerge ==
    \/ \E d \in 1 .. MaxDur, a \in 1 .. MaxDur + 1, has \in BOOLEAN,
          vv \in Volumes, av \in Volumes, dir \in BOOLEAN,
          ver \in MoviePyVersions :
          CallMerge(d, a, has, vv, av, dir, ver)
    \/ MvaMakedirs
    \/ MvaOpenVideo
    \/ MvaOpenAudio
    \/ MvaScale
    \/ MvaTrim
    \/ MvaComposite
    \/ MvaWrite
    \/ MvaFinally
    \/ Return

SpecMerge == Init /\ [][NextMerge]_vars

\* C3: when merge_video_with_audio has returned or raised, every media
\* handle it opened has been closed.
C3_HandlesClosed ==
    (pc = "done" /\ op = "merge_video_with_audio") =>
        (mvideo # "open" /\ maudio # "open" /\ mfinal # "open")

\* C9: when the narration is longer than the video, the audio attached to the
\* merged output lasts exactly as long as the video, whatever the volume
\* multipliers and whether or not the video has an audio track of its own.
C9_TrimmedToVideo ==
    (op = "merge_video_with_audio" /\ mfinal # "none" /\ adurationIn > vduration) =>
        /\ final_audio.present
        /\ final_audio.duration = vduration
        /\ added_audio_clip.duration = vduration

C9_Witness ==
    /\ op = "merge_video_with_audio" /\ pc = "done" /\ outcome = "ok"
    /\ mergedWritten
    /\ adurationIn > vduration
    /\ hasAudio /\ video_volume # 1 /\ audio_volume # 1

---------------------------------------------------------------------------
(* The text operations of the generative client, for any answer of the
   backend: genai.py 42-77, 114-121 *)

Pieces == { <<Backtick>>, <<"h", "t", "m", "l">>, <<"x">> }

TextOps == {"generate_text", "generate_chat_response", "generate_image_description"}

\* The backend's answer grows by a backtick, by the word html or by another
\* character.
BackendAnswers(piece) ==
    /\ pc = "idle"
    /\ Len(response) + Len(piece) <= MaxLen
    /\ response' = response \o piece
    /\ UNCHANGED <<credVars, callVars, argVars, frameVars, backendVars,
                   mergeVars, returned>>

TextOperation(name, result) ==
    /\ pc = "idle"
    /\ op' = name /\ pc' = "done" /\ outcome' = "ok"
    /\ backendCalls' = backendCalls + 1
    /\ returned' = result
    /\ UNCHANGED <<credVars, pending, closeFailed, argVars, frameVars,
                   audioWritten, mergeVars, response>>

GenerateText == TextOperation("generate_text", generate_text_result(response))

GenerateChatResponse ==
    TextOperation("generate_chat_response", generate_chat_response_result(response))

GenerateImageDescription ==
    TextOperation("generate_image_description",
                  generate_image_description_result(response))

NextFence ==
    \/ \E piece \in Pieces : BackendAnswers(piece)
    \/ GenerateText
    \/ GenerateChatResponse
    \/ GenerateImageDescription
    \/ Return

SpecFence == Init /\ [][NextFence]_vars

\* C8: what a text operation returns contains neither the html fence marker
\* nor the plain fence marker.
C8_NoFenceReturned ==
    (pc = "done" /\ op \in TextOps) =>
        (~Contains(returned, Fence) /\ ~Contains(returned, FenceHtml))

\* The same, of the two operations that strip the answer.
C8_StrippingOperations ==
    (pc = "done" /\ op \in {"generate_text", "generate_image_description"}) =>
        (~Contains(returned, Fence) /\ ~Contains(returned, FenceHtml))

=============================================================================
